---- MODULE Spec2Model ----
(***************************************************************************)
(* State-machine model of the Worker entry src/index.ts: the POST /chat    *)
(* handler (LLM call with Durable Object memory) and the two summarize     *)
(* routes that front the Workflow binding.                                 *)
(*                                                                         *)
(* Strings that the handlers build are modelled as sequences of tokens: a  *)
(* token is a literal piece of a template ("User: ", "\n") or an atomic    *)
(* piece of input text; concatenation is \o.                               *)
(***************************************************************************)
EXTENDS Integers, Sequences, FiniteSets, TLC

VARIABLES
  chat,       \* the POST /chat requests, in arrival order
  store,      \* per Durable Object instance: the Memory Record it holds
  appendLog,  \* per instance: which request's append the actor applied, in order
  flow,       \* the /summarize and /summarize/status requests, in arrival order
  wf,         \* the Workflow Engine's instances, by issue order
  reported    \* per instance number: the statuses already sent to a client

vars == <<chat, store, appendLog, flow, wf, reported>>

chatVars == <<chat, store, appendLog>>
flowVars == <<flow, wf, reported>>

----------------------------------------------------------------------------
(* Bounds of the model *)

MaxChat == 2
MaxFlow == 3
MaxInst == 2

Users == {"u1", "u2"}
Msgs == {<<"hello">>, <<"how are you">>}
Answers == {<<"fine">>}

----------------------------------------------------------------------------
(* Durable Object addressing and the Memory Actor *)

\* MEMORY_DO.idFromName(name): deterministic, one id per name
idFromName(name) == [name |-> name]

ActorIds == {idFromName(u) : u \in Users}

\* c.env.MEMORY_DO.get(c.env.MEMORY_DO.idFromName(userId)), every user on one instance
ActorFor_shared(userId) == idFromName(CHOOSE u \in Users : TRUE)

\* c.env.MEMORY_DO.get(c.env.MEMORY_DO.idFromName(userId))
ActorFor(userId) == idFromName(userId)

\* a record created lazily: empty history, absent profile
EmptyRecord == [hist |-> <<>>]

\* the actor's handling of one message when its storage call succeeds:
\* the record afterwards and the JSON body of the response
MemoryDO_fetch(rec, body) ==
  IF body.op = "append"
    THEN [rec |-> [rec EXCEPT !.hist = Append(@, body.item)],
          json |-> [ok |-> TRUE], applied |-> TRUE]
    ELSE [rec |-> rec, json |-> rec, applied |-> FALSE]

\* the JSON body of a failure response of the actor
StorageUnavailableBody == [error |-> "StorageUnavailable"]

\* how a stub.fetch can end: the actor answered, the promise rejected, or the
\* actor answered with a failure response
FetchOutcomes == {"ok", "throw", "err"}

\* how llmChat can end
GenerateOutcomes == {"ok", "throw"}

----------------------------------------------------------------------------
(* Strings built by the /chat handler *)

RECURSIVE Join(_, _)
\* Array.prototype.join(sep) over strings
Join(arr, sep) ==
  IF Len(arr) = 0 THEN <<>>
  ELSE IF Len(arr) = 1 THEN arr[1]
  ELSE arr[1] \o sep \o Join(Tail(arr), sep)

\* JSON.stringify of a profile object
JSONstringify(prof) == <<"{\"name\":\"", prof.name, "\"}">>

\* mem.hist ?? [], dropping the stored turns
HistOf_none(mem) == <<>>

\* mem.hist ?? []
HistOf(mem) == IF "hist" \in DOMAIN mem THEN mem.hist ELSE <<>>

\* (mem.hist ?? []).join("\n")
HistoryText(mem) == Join(HistOf(mem), <<"\n">>)

\* mem.prof ? `User profile: ${JSON.stringify(mem.prof)}\n` : ""
ProfileLine(mem) ==
  IF "prof" \in DOMAIN mem
    THEN <<"User profile: ">> \o JSONstringify(mem.prof) \o <<"\n">>
    ELSE <<>>

\* the prompt built without the history segment
BuildPrompt_noHistory(mem, userMsg) ==
  ProfileLine(mem) \o <<"Conversation so far:", "\n">>
    \o <<"\n", "User: ">> \o userMsg \o <<"\n", "Assistant:">>

\* `${profile}Conversation so far:\n${history}\nUser: ${userMsg}\nAssistant:`
BuildPrompt(mem, userMsg) ==
  ProfileLine(mem) \o <<"Conversation so far:", "\n">> \o HistoryText(mem)
    \o <<"\n", "User: ">> \o userMsg \o <<"\n", "Assistant:">>

\* the item built without the answer
Item_noAnswer(userMsg, answer) == <<"User: ">> \o userMsg \o <<"\n", "Assistant: ">>

\* `User: ${userMsg}\nAssistant: ${answer}`
Item(userMsg, answer) == <<"User: ">> \o userMsg \o <<"\n", "Assistant: ">> \o answer

\* the body of the get message
GetBody(userId) == [op |-> "get", userId |-> userId]

\* the body of the append message, sent with the wrong op
AppendBody_wrongOp(userId, userMsg, answer) ==
  [op |-> "get", userId |-> userId, item |-> Item(userMsg, answer)]

\* the body of the append message
AppendBody(userId, userMsg, answer) ==
  [op |-> "append", userId |-> userId, item |-> Item(userMsg, answer)]

----------------------------------------------------------------------------
(* Responses *)

NoOut == [status |-> 0]

\* Hono's default error handler, reached by an exception thrown in a handler
InternalServerError == [status |-> 500, body |-> [text |-> "Internal Server Error"]]

\* c.json({ answer })
AnswerResponse(answer) == [status |-> 200, body |-> [answer |-> answer]]

----------------------------------------------------------------------------
(* POST /chat *)

NoMem == [none |-> TRUE]

Done(reqs) == {i \in 1..Len(reqs) : reqs[i].pc = "done"}

NewChat(userId, userMsg) ==
  [userId |-> userId, userMsg |-> userMsg, pc |-> "get",
   prior |-> Done(chat),
   getRes |-> "none", mem |-> NoMem, prompt |-> <<>>,
   genRes |-> "none", answer |-> <<>>,
   appRes |-> "none", trace |-> <<>>, out |-> NoOut]

\* a request arrives and its JSON body is parsed
ChatArrive(userId, userMsg) ==
  /\ Len(chat) < MaxChat
  /\ chat' = Append(chat, NewChat(userId, userMsg))
  /\ UNCHANGED <<store, appendLog, flowVars>>

\* stub.fetch("https://do/get", ...).then(r => r.json()), then the prompt is built
ChatGet(r, res) ==
  /\ chat[r].pc = "get"
  /\ LET q == chat[r]
         a == ActorFor(q.userId)
         resp == MemoryDO_fetch(store[a], GetBody(q.userId))
     IN CASE res = "ok" ->
               /\ store' = [store EXCEPT ![a] = resp.rec]
               /\ chat' = [chat EXCEPT ![r] =
                    [q EXCEPT !.pc = "generate", !.getRes = res, !.mem = resp.json,
                              !.prompt = BuildPrompt(resp.json, q.userMsg),
                              !.trace = Append(@, "get")]]
          [] res = "err" ->
               /\ store' = store
               /\ chat' = [chat EXCEPT ![r] =
                    [q EXCEPT !.pc = "generate", !.getRes = res,
                              !.mem = StorageUnavailableBody,
                              !.prompt = BuildPrompt(StorageUnavailableBody, q.userMsg),
                              !.trace = Append(@, "get")]]
          [] res = "throw" ->
               /\ store' = store
               /\ chat' = [chat EXCEPT ![r] =
                    [q EXCEPT !.pc = "done", !.getRes = res,
                              !.trace = Append(@, "get"),
                              !.out = InternalServerError]]
  /\ UNCHANGED <<appendLog, flowVars>>

\* await llmChat(c.env.AI, prompt), a failure caught and an empty answer kept
ChatGenerate_catch(r, res, ans) ==
  /\ chat[r].pc = "generate"
  /\ chat' = [chat EXCEPT ![r] =
       [@ EXCEPT !.pc = "append", !.genRes = res,
                 !.answer = IF res = "ok" THEN ans ELSE <<>>,
                 !.trace = Append(@, "generate")]]
  /\ UNCHANGED <<store, appendLog, flowVars>>

\* await llmChat(c.env.AI, prompt), the answer returned to the client before
\* the append is issued
ChatGenerate_respondFirst(r, res, ans) ==
  /\ chat[r].pc = "generate"
  /\ IF res = "ok"
       THEN chat' = [chat EXCEPT ![r] =
              [@ EXCEPT !.pc = "append", !.genRes = res, !.answer = ans,
                        !.trace = @ \o <<"generate", "respond">>,
                        !.out = AnswerResponse(ans)]]
       ELSE chat' = [chat EXCEPT ![r] =
              [@ EXCEPT !.pc = "done", !.genRes = res,
                        !.trace = Append(@, "generate"),
                        !.out = InternalServerError]]
  /\ UNCHANGED <<store, appendLog, flowVars>>

\* await llmChat(c.env.AI, prompt)
ChatGenerate(r, res, ans) ==
  /\ chat[r].pc = "generate"
  /\ IF res = "ok"
       THEN chat' = [chat EXCEPT ![r] =
              [@ EXCEPT !.pc = "append", !.genRes = res, !.answer = ans,
                        !.trace = Append(@, "generate")]]
       ELSE chat' = [chat EXCEPT ![r] =
              [@ EXCEPT !.pc = "done", !.genRes = res,
                        !.trace = Append(@, "generate"),
                        !.out = InternalServerError]]
  /\ UNCHANGED <<store, appendLog, flowVars>>

\* await stub.fetch("https://do/append", ...): the response is not inspected;
\* when the promise resolves the handler runs on to return c.json({ answer })
ChatAppend(r, res) ==
  /\ chat[r].pc = "append"
  /\ LET q == chat[r]
         a == ActorFor(q.userId)
         resp == MemoryDO_fetch(store[a], AppendBody(q.userId, q.userMsg, q.answer))
     IN CASE res = "ok" ->
               /\ store' = [store EXCEPT ![a] = resp.rec]
               /\ appendLog' = IF resp.applied
                                 THEN [appendLog EXCEPT ![a] = Append(@, r)]
                                 ELSE appendLog
               /\ chat' = [chat EXCEPT ![r] =
                    [q EXCEPT !.pc = "done", !.appRes = res,
                              !.trace = @ \o <<"append", "respond">>,
                              !.out = AnswerResponse(q.answer)]]
          [] res = "err" ->
               /\ UNCHANGED <<store, appendLog>>
               /\ chat' = [chat EXCEPT ![r] =
                    [q EXCEPT !.pc = "done", !.appRes = res,
                              !.trace = @ \o <<"append", "respond">>,
                              !.out = AnswerResponse(q.answer)]]
          [] res = "throw" ->
               /\ UNCHANGED <<store, appendLog>>
               /\ chat' = [chat EXCEPT ![r] =
                    [q EXCEPT !.pc = "done", !.appRes = res,
                              !.trace = Append(@, "append"),
                              !.out = InternalServerError]]
  /\ UNCHANGED flowVars

ChatNext ==
  \/ \E u \in Users, m \in Msgs : ChatArrive(u, m)
  \/ \E r \in 1..Len(chat), res \in FetchOutcomes : ChatGet(r, res)
  \/ \E r \in 1..Len(chat), res \in GenerateOutcomes, ans \in Answers :
       ChatGenerate(r, res, ans)
  \/ \E r \in 1..Len(chat), res \in FetchOutcomes : ChatAppend(r, res)

----------------------------------------------------------------------------
(* The Workflow Engine behind SUMMARIZE_FLOW *)

\* An instance id is the string the engine issued; the k-th issued id is
\* modelled by the number k >= 1, the empty string by 0, and an absent query
\* parameter (undefined) by Undefined.
Undefined == -1
EmptyString == 0

QueryIds == {Undefined, EmptyString} \cup (1..MaxInst)
Urls == {"", "https://example.com/a"}

Terminal == {"Succeeded", "Failed"}

Rank(s) == CASE s = "Queued" -> 0 [] s = "Running" -> 1 [] OTHER -> 2

\* SUMMARIZE_FLOW.create({ url }): a new instance, queued, with a fresh id
EngineCreate(params) == Append(wf, [url |-> params.url, status |-> "Queued"])

\* SUMMARIZE_FLOW.get(id) resolves exactly the ids the engine has issued
EngineKnows(id) == id \in 1..Len(wf)

\* the engine runs an instance: Queued -> Running -> {Succeeded | Failed}
EngineAdvance(i, to) ==
  /\ i \in 1..Len(wf)
  /\ \/ wf[i].status = "Queued" /\ to = "Running"
     \/ wf[i].status = "Running" /\ to \in Terminal
  /\ wf' = [wf EXCEPT ![i].status = to]
  /\ UNCHANGED <<flow, reported, chatVars>>

----------------------------------------------------------------------------
(* POST /summarize and GET /summarize/status *)

\* c.text("missing id", 400)
MissingId == [status |-> 400, body |-> [text |-> "missing id"]]

\* c.json({ id, status }) with the id of the first instance instead of instance.id
StartResponse_firstId(id, status) ==
  [status |-> 200, body |-> [id |-> 1, status |-> status]]

\* c.json({ id: instance.id, status })
StartResponse(id, status) == [status |-> 200, body |-> [id |-> id, status |-> status]]

\* c.json(status)
StatusResponse(status) == [status |-> 200, body |-> [status |-> status]]

\* !id, testing for undefined only
Falsy_onlyUndefined(id) == id = Undefined

\* !id
Falsy(id) == id = Undefined \/ id = EmptyString

\* the id handed to SUMMARIZE_FLOW.get, always the first instance
PollTarget_first(id) == 1

\* the id handed to SUMMARIZE_FLOW.get
PollTarget(id) == id

Seen(id) == IF id \in 1..Len(reported) THEN reported[id] ELSE {}

NewFlow(kind, url, id) ==
  [kind |-> kind, url |-> url, id |-> id, pc |-> "done", inst |-> 0,
   status |-> "none", getRes |-> "none", seen |-> {}, trace |-> <<>>, out |-> NoOut]

\* a POST /summarize arrives, its JSON body is parsed, and
\* const instance = await c.env.SUMMARIZE_FLOW.create({ url })
StartCreate(url) ==
  /\ Len(flow) < MaxFlow
  /\ Len(wf) < MaxInst
  /\ wf' = EngineCreate([url |-> url])
  /\ reported' = Append(reported, {})
  /\ flow' = Append(flow,
       [NewFlow("start", url, Undefined) EXCEPT
          !.pc = "status", !.inst = Len(wf'), !.id = Len(wf'),
          !.trace = <<"create">>])
  /\ UNCHANGED chatVars

\* a GET /summarize/status arrives, the id is read and tested, and
\* const instance = await c.env.SUMMARIZE_FLOW.get(id)
PollGet(id) ==
  /\ Len(flow) < MaxFlow
  /\ flow' = Append(flow,
       IF Falsy(id)
         THEN [NewFlow("poll", "", id) EXCEPT !.out = MissingId]
         ELSE LET t == PollTarget(id)
              IN IF EngineKnows(t)
                   THEN [NewFlow("poll", "", id) EXCEPT
                           !.pc = "status", !.inst = t, !.getRes = "ok",
                           !.seen = Seen(id), !.trace = <<"get">>]
                   ELSE [NewFlow("poll", "", id) EXCEPT
                           !.getRes = "unknown", !.trace = <<"get">>,
                           !.out = InternalServerError])
  /\ UNCHANGED <<wf, reported, chatVars>>

\* const status = await instance.status(), then
\* return c.json({ id: instance.id, status }) / return c.json(status)
FlowStatus(r) ==
  /\ flow[r].pc = "status"
  /\ LET q == flow[r]
         status == wf[q.inst].status
     IN /\ flow' = [flow EXCEPT ![r] =
             [q EXCEPT !.pc = "done", !.status = status,
                       !.trace = @ \o <<"status", "respond">>,
                       !.out = IF q.kind = "start"
                                 THEN StartResponse(q.inst, status)
                                 ELSE StatusResponse(status)]]
        /\ reported' = IF q.id \in 1..Len(reported)
                         THEN [reported EXCEPT ![q.id] = @ \cup {status}]
                         ELSE reported
  /\ UNCHANGED <<wf, chatVars>>

FlowNext ==
  \/ \E url \in Urls : StartCreate(url)
  \/ \E id \in QueryIds : PollGet(id)
  \/ \E r \in 1..Len(flow) : FlowStatus(r)
  \/ \E i \in 1..Len(wf), to \in {"Running"} \cup Terminal : EngineAdvance(i, to)

----------------------------------------------------------------------------

Init ==
  /\ chat = <<>>
  /\ store = [a \in ActorIds |-> EmptyRecord]
  /\ appendLog = [a \in ActorIds |-> <<>>]
  /\ flow = <<>>
  /\ wf = <<>>
  /\ reported = <<>>

Next == ChatNext \/ FlowNext

Spec == Init /\ [][Next]_vars

SpecChat == Init /\ [][ChatNext]_vars

SpecFlow == Init /\ [][FlowNext]_vars

----------------------------------------------------------------------------
(* Properties of POST /chat *)

ChatIds == 1..Len(chat)

OnUser(u) == {i \in ChatIds : chat[i].userId = u}

\* the requests of u whose append the actor acknowledged
Appended(u) == {i \in OnUser(u) : chat[i].appRes = "ok"}

TurnOf(i) == Item(chat[i].userMsg, chat[i].answer)

Range(f) == {f[k] : k \in DOMAIN f}

\* C1: whatever the interleaving of the /chat calls on one userId, the user's
\* history holds exactly one entry per call whose append succeeded (none lost,
\* none duplicated, each entry the turn of its call), and a call that had
\* returned before another arrived has its entry before the other's.
THM_C1_NoLostOrDuplicatedTurn ==
  \A u \in Users :
    LET hist == store[ActorFor(u)].hist
        log == appendLog[ActorFor(u)]
    IN /\ Len(hist) = Cardinality(Appended(u))
       /\ Len(log) = Len(hist)
       /\ Range(log) = Appended(u)
       /\ \A k \in 1..Len(log) : hist[k] = TurnOf(log[k])
       /\ \A k1, k2 \in 1..Len(log) :
            log[k1] \in chat[log[k2]].prior => k1 < k2

\* two overlapping calls on one user have both appended, the later arrival first
WIT_C1_OverlappingAppends ==
  \E i, j \in ChatIds :
    /\ i < j /\ chat[i].userId = chat[j].userId
    /\ chat[i].appRes = "ok" /\ chat[j].appRes = "ok"
    /\ i \notin chat[j].prior
    /\ appendLog[ActorFor(chat[i].userId)] = <<j, i>>

\* every append so far on the user of request i came from a call that had
\* returned before i arrived
NothingAppendedSince(i) == Appended(chat[i].userId) \subseteq chat[i].prior

\* C2: a /chat whose inference call fails ends with a server error, issues no
\* append, and leaves the user's history as it read it.
THM_C2_InferenceFailureAborts ==
  \A i \in ChatIds :
    chat[i].genRes = "throw" =>
      /\ chat[i].pc = "done"
      /\ chat[i].out.status >= 500
      /\ chat[i].appRes = "none"
      /\ "append" \notin Range(chat[i].trace)
      /\ \A a \in ActorIds : i \notin Range(appendLog[a])
      /\ (chat[i].getRes = "ok" /\ NothingAppendedSince(i)) =>
           store[ActorFor(chat[i].userId)].hist = chat[i].mem.hist

\* an inference failure on a user who already has a stored turn
WIT_C2_InferenceFailed ==
  \E i \in ChatIds :
    /\ chat[i].genRes = "throw" /\ chat[i].getRes = "ok"
    /\ Len(chat[i].mem.hist) = 1
    /\ NothingAppendedSince(i)

\* C3: if the append fails after inference succeeded, the answer is still
\* returned as { answer }.
CEX_C3_AnswerSurvivesAppendFailure ==
  \A i \in ChatIds :
    chat[i].appRes \in {"throw", "err"} =>
      chat[i].out = AnswerResponse(chat[i].answer)

\* C4: a failed append is reported: the request never completes the way a
\* request whose append succeeded completes.
CEX_C4_AppendFailureReported ==
  \A i \in ChatIds :
    chat[i].appRes \in {"throw", "err"} =>
      chat[i].out # AnswerResponse(chat[i].answer)

\* C5: if the get fails, the request goes on with an empty snapshot: it builds
\* the prompt and invokes inference instead of failing.
CEX_C5_GetFailureDegrades ==
  \A i \in ChatIds :
    chat[i].getRes \in {"throw", "err"} =>
      /\ chat[i].prompt = BuildPrompt(EmptyRecord, chat[i].userMsg)
      /\ chat[i].pc = "done" => "generate" \in Range(chat[i].trace)

RECURSIVE TurnsBefore(_, _)
\* the turns of the calls 1..n on user u whose append succeeded, in call order
TurnsBefore(u, n) ==
  IF n = 0 THEN <<>>
  ELSE IF n \in Appended(u) THEN Append(TurnsBefore(u, n - 1), TurnOf(n))
  ELSE TurnsBefore(u, n - 1)

\* each call on u returned before the next one on u arrived
Sequential(u) == \A i, j \in OnUser(u) : i < j => i \in chat[j].prior

THM_C9_UsersIsolated ==
  /\ \A u, v \in Users : u # v => ActorFor(u) # ActorFor(v)
  /\ \A v \in Users :
       LET a == ActorFor(v)
       IN /\ \A k \in 1..Len(appendLog[a]) : chat[appendLog[a][k]].userId = v
          /\ Len(store[a].hist) = Cardinality(Appended(v))
          /\ \A j \in OnUser(v) :
               chat[j].getRes = "ok" =>
                 /\ Len(chat[j].mem.hist) <= Len(store[a].hist)
                 /\ chat[j].mem.hist = SubSeq(store[a].hist, 1, Len(chat[j].mem.hist))

\* a call on one user read an empty snapshot after a call on another user had
\* appended and returned
WIT_C9_OtherUserUnseen ==
  \E i, j \in ChatIds :
    /\ chat[i].userId # chat[j].userId
    /\ chat[i].appRes = "ok" /\ i \in chat[j].prior
    /\ chat[j].getRes = "ok" /\ chat[j].mem.hist = <<>>
    /\ chat[j].appRes = "ok"

----------------------------------------------------------------------------
(* Properties of the summarize routes *)

FlowIds == 1..Len(flow)

Polls == {r \in FlowIds : flow[r].kind = "poll"}

\* C6: a poll whose id is missing or empty is answered 400 and makes no
\* Workflow Engine call.
THM_C6_MissingIdRejected ==
  \A r \in Polls :
    flow[r].id \in {Undefined, EmptyString} =>
      /\ flow[r].pc = "done"
      /\ flow[r].out.status = 400
      /\ flow[r].trace = <<>>

\* one poll without id and one with an empty id have been answered
WIT_C6_MissingAndEmptyId ==
  \E r1, r2 \in Polls :
    /\ flow[r1].id = Undefined /\ flow[r1].out = MissingId
    /\ flow[r2].id = EmptyString /\ flow[r2].out = MissingId

\* C7: a poll with an id the engine does not know is answered with a
\* client error (NotFound).
CEX_C7_UnknownIdIsClientError ==
  \A r \in Polls :
    flow[r].getRes = "unknown" => flow[r].out.status \in 400..499

\* C10: the statuses reported for an instance id never regress: a poll reports
\* no state earlier than one reported before the poll arrived, and once a
\* terminal state has been reported every later poll reports that same state.
THM_C10_StatusNeverRegresses ==
  /\ \A r \in Polls :
       flow[r].out.status = 200 =>
         \A t \in flow[r].seen :
           /\ Rank(t) <= Rank(flow[r].out.body.status)
           /\ t \in Terminal => flow[r].out.body.status = t
  /\ \A i \in 1..Len(reported) : Cardinality(reported[i] \cap Terminal) <= 1

\* a poll arrived after a terminal state had been reported and was answered
WIT_C10_PollAfterTerminal ==
  \E r \in Polls :
    /\ flow[r].out.status = 200
    /\ flow[r].seen \cap Terminal # {}
    /\ "Queued" \in flow[r].seen

Starts == {r \in FlowIds : flow[r].kind = "start"}

\* C11: every start creates exactly one new instance carrying its url, reads
\* that instance's status and answers with that instance's id and that status;
\* the ids of different starts differ, and a poll of a returned id that
\* arrives after the start resolves to that same instance.
THM_C11_StartCreatesOneInstance ==
  /\ Len(wf) = Cardinality(Starts)
  /\ \A r1, r2 \in Starts : r1 # r2 => flow[r1].inst # flow[r2].inst
  /\ \A r \in Starts :
       /\ flow[r].inst \in 1..Len(wf)
       /\ wf[flow[r].inst].url = flow[r].url
       /\ flow[r].pc = "done" =>
            /\ flow[r].trace = <<"create", "status", "respond">>
            /\ flow[r].out.status = 200
            /\ flow[r].out.body.id = flow[r].inst
            /\ flow[r].out.body.status = flow[r].status
            /\ Rank(flow[r].status) <= Rank(wf[flow[r].inst].status)
            /\ \A t \in Starts :
                 (t < r /\ flow[t].pc = "done") => flow[t].out.body.id # flow[r].out.body.id
            /\ \A p \in Polls :
                 (p > r /\ flow[p].id = flow[r].out.body.id) =>
                   flow[p].getRes = "ok" /\ flow[p].inst = flow[r].inst

\* two starts have returned different ids and a later poll of the second id
\* has been answered
WIT_C11_TwoStartsThenPoll ==
  \E r1, r2 \in Starts, p \in Polls :
    /\ r1 < r2 /\ r2 < p
    /\ flow[r1].pc = "done" /\ flow[r2].pc = "done"
    /\ flow[r1].out.body.id # flow[r2].out.body.id
    /\ flow[p].id = flow[r2].out.body.id /\ flow[p].out.status = 200

\* C12: a start whose url is empty is rejected as a bad request and creates
\* no instance.
CEX_C12_EmptyUrlRejected ==
  /\ \A r \in Starts : flow[r].url = "" => flow[r].inst = 0
  /\ \A r \in Starts :
       (flow[r].url = "" /\ flow[r].pc = "done") => flow[r].out.status = 400
  /\ \A i \in 1..Len(wf) : wf[i].url # ""

\* a step of a GET /summarize/status request
PollStep ==
  \/ \E id \in QueryIds : PollGet(id)
  \/ \E r \in Polls : FlowStatus(r)

\* C13: a step of a poll changes no workflow instance and no Memory Record,
\* and a poll that is answered with a status returns the status the engine
\* holds for the polled id when instance.status() is called.
THM_C13_PollHasNoSideEffects ==
  [][ /\ PollStep => (wf' = wf /\ store' = store /\ appendLog' = appendLog)
      /\ \A r \in Polls :
           (flow[r].pc = "status" /\ flow'[r].pc = "done") =>
             /\ flow[r].id \in 1..Len(wf)
             /\ flow'[r].out = [status |-> 200,
                                body |-> [status |-> wf[flow[r].id].status]]
    ]_vars

\* a poll has been answered with the status of a running instance that another
\* poll had seen queued
WIT_C13_PollReturnedCurrentStatus ==
  \E p1, p2 \in Polls :
    /\ p1 # p2 /\ flow[p1].id = flow[p2].id
    /\ flow[p1].out.status = 200 /\ flow[p1].out.body.status = "Queued"
    /\ flow[p2].out.status = 200 /\ flow[p2].out.body.status = "Running"
    /\ wf[flow[p2].id].status = "Running"

----------------------------------------------------------------------------
(* Further properties of POST /chat *)

\* C14: a call on a user for whom nothing has been appended reads the empty
\* snapshot; the prompt built from it has no profile line and no history
\* line and ends with "User: <userMsg>\nAssistant:"; and when its append is
\* the only one acknowledged, the history is the single item
\* "User: <userMsg>\nAssistant: <answer>".
THM_C14_FirstTurn ==
  \A j \in ChatIds :
    LET u == chat[j].userId
        msg == chat[j].userMsg
    IN /\ (chat[j].getRes = "ok" /\ Appended(u) \subseteq {j}) =>
            chat[j].mem = [hist |-> <<>>]
       /\ (chat[j].getRes = "ok" /\ chat[j].mem = [hist |-> <<>>]) =>
            /\ chat[j].prompt =
                 <<"Conversation so far:", "\n", "\n", "User: ">> \o msg
                   \o <<"\n", "Assistant:">>
            /\ "User profile: " \notin Range(chat[j].prompt)
       /\ (chat[j].getRes = "ok" /\ Appended(u) = {j}) =>
            store[ActorFor(u)].hist =
              << <<"User: ">> \o msg \o <<"\n", "Assistant: ">> \o chat[j].answer >>

\* the first call on a user has read the empty snapshot and appended its turn
WIT_C14_FirstTurnAppended ==
  \E j \in ChatIds :
    /\ chat[j].getRes = "ok" /\ chat[j].mem = [hist |-> <<>>]
    /\ Appended(chat[j].userId) = {j}
    /\ Len(store[ActorFor(chat[j].userId)].hist) = 1
    /\ chat[j].out.status = 200

ChatSteps == <<"get", "generate", "append", "respond">>

IsPrefix(t, q) == Len(t) <= Len(q) /\ t = SubSeq(q, 1, Len(t))

\* C15: the calls of a /chat request happen in the order get, generate,
\* append, respond: inference is invoked only after the get has returned, the
\* append is issued only after inference has returned an answer, and
\* { answer } is sent only after the append has completed.
THM_C15_StepsInOrder ==
  \A r \in ChatIds :
    /\ IsPrefix(chat[r].trace, ChatSteps)
    /\ chat[r].genRes # "none" => (chat[r].getRes \in {"ok", "err"} /\ chat[r].mem # NoMem)
    /\ chat[r].appRes # "none" => (chat[r].genRes = "ok" /\ chat[r].answer \in Answers)
    /\ chat[r].out.status = 200 =>
         /\ chat[r].appRes \in {"ok", "err"}
         /\ chat[r].trace = ChatSteps
         /\ chat[r].out = [status |-> 200, body |-> [answer |-> chat[r].answer]]

\* a request has gone through all four steps and been answered
WIT_C15_AllStepsTaken ==
  \E r \in ChatIds :
    /\ chat[r].trace = ChatSteps
    /\ chat[r].appRes = "ok"
    /\ chat[r].out.status = 200

NoRepeat(t) == \A k1, k2 \in 1..Len(t) : t[k1] = t[k2] => k1 = k2

Count(log, r) == Cardinality({k \in 1..Len(log) : log[k] = r})

\* no request repeats a call, and a converse changes memory by at most its
\* one append
NoRetry ==
  /\ \A r \in ChatIds :
       /\ NoRepeat(chat[r].trace)
       /\ \A a \in ActorIds :
            Count(appendLog[a], r) <= (IF a = ActorFor(chat[r].userId) THEN 1 ELSE 0)
  /\ \A a \in ActorIds : Len(store[a].hist) = Len(appendLog[a])
  /\ \A r \in FlowIds : NoRepeat(flow[r].trace)
  /\ Len(wf) = Cardinality(Starts)

\* a failed call ends the request with an error response, the failed call
\* being the last one the request made
FailureSurfaced ==
  /\ \A r \in ChatIds :
       /\ chat[r].getRes = "throw" =>
            (chat[r].pc = "done" /\ chat[r].out.status >= 500 /\ chat[r].trace = <<"get">>)
       /\ chat[r].genRes = "throw" =>
            (chat[r].pc = "done" /\ chat[r].out.status >= 500
               /\ chat[r].trace = <<"get", "generate">>)
       /\ chat[r].appRes \in {"throw", "err"} =>
            (chat[r].pc = "done" /\ chat[r].out.status >= 500
               /\ chat[r].trace = <<"get", "generate", "append">>)
  /\ \A r \in Polls :
       flow[r].getRes = "unknown" =>
         (flow[r].pc = "done" /\ flow[r].out.status >= 400 /\ flow[r].trace = <<"get">>)

\* C16: no call is retried (each request makes each of its calls at most once
\* and a converse has no side effect but its single append), and a failure of
\* a call is surfaced once and ends the request.
CEX_C16_NoRetryFailureSurfaced == NoRetry /\ FailureSurfaced

IsInfix(t, q) == \E k \in 0..(Len(q) - Len(t)) : SubSeq(q, k + 1, k + Len(t)) = t

====
